---- MODULE Spec2Model ----
(***************************************************************************)
(* Model of pylib/cqlshlib/async_insert.py: _CountDownLatch and the        *)
(* _ChainedWriter bulk-load pipeline.                                      *)
(*                                                                         *)
(* Threads.  insert() runs on the calling thread and executes the          *)
(* CONCURRENCY seed calls of _execute_next one after the other.  Every     *)
(* later _execute_next / _handle_error call is a continuation run by the   *)
(* session on a thread of its own, so continuations of different slots     *)
(* interleave with each other and with the seed loop.  One model step is   *)
(* one access to shared state; "self.num_finished += 1" and the            *)
(* test-then-assign of _first_error in _abort are not protected by a lock  *)
(* and are therefore two steps each (read, then write).                    *)
(*                                                                         *)
(* The record source is an iterator over records with indices 1..M whose   *)
(* next() is atomic, or an absent (falsy) source.                          *)
(*                                                                         *)
(* LatchSpec models _CountDownLatch on its own, with the Condition lock    *)
(* taken and released step by step; MeterSpec models Meter (meter.py)      *)
(* under sequential calls.  Spec keeps their variables constant.           *)
(***************************************************************************)
EXTENDS Integers, FiniteSets, Sequences, TLC

\* ---------------------------------------------------------------- bounds
MaxRecords == 3      \* largest size M of the record source
MaxFailures == 2     \* at most this many fetch/build/submit/remote failures per run
MaxLatch == 2        \* largest counter a latch is constructed with on its own
NumCountDowns == 3   \* threads that call count_down() on the latch on its own
NumAwaits == 2       \* threads that call await() on the latch on its own
MaxMarks == 7        \* calls of mark_read()/mark_written() on one Meter

\* ------------------------------------------------------- program constants
CONCURRENCY == 2     \* _ChainedWriter.CONCURRENCY (100 in the source, scaled down)
ProgressEvery == 2   \* "if not self.num_finished % 1000" (scaled down)
MeterEvery == 2      \* Meter: "if self.num_finished % 1000 != 0" (scaled down)

Slots == 1..CONCURRENCY
None == <<>>
Kinds == {"fetch", "submit", "remote"}

VARIABLES
  sourceKind,          \* "absent" (falsy reader) or "iterator"
  M,                   \* number of records the source holds
  handedOut,           \* records the source has handed out so far (next index = handedOut+1)
  caller,              \* position of the thread inside insert()
  launched,            \* seed calls started by the loop of insert()
  seedRunning,         \* the seed call of slot `launched` has not returned yet
  pc,                  \* per slot: position inside _execute_next / _abort
  isSeed,              \* per slot: result is self._sentinel in the running cycle
  last,                \* per slot: last_completed_record argument
  cur,                 \* per slot: current_record
  tmp,                 \* per slot: value of num_finished read by "+= 1"
  err,                 \* per slot: arguments (error, failed_record) of _abort
  inflight,            \* writes submitted to the session, continuation not yet invoked
  cancellation_event,  \* self._cancellation_event
  first_error,         \* self._first_error
  count,               \* self._task_counter._count
  num_finished,        \* self.num_finished
  printed,             \* counts written to stdout by the progress line
  result,              \* value returned by insert()
  failures,            \* number of failures injected so far
  failLog,             \* history: every failure that occurred, <<kind, cause, record>>
  fetchCalls,          \* history: calls of next() on the source
  submitted,           \* history: sequence of records passed to execute_async successfully
  successes,           \* history: writes whose success continuation was invoked
  lateSubmits,         \* history, per slot: writes submitted while the flag was set
  submitsAfterFailure, \* history: writes submitted after the first failure occurred
  fetchedLate,         \* history, per slot: current_record was fetched while the flag was set
  lateFetchSubmits,    \* history: writes submitted for a record fetched while the flag was set
  countDowns,          \* history, per slot: count_down() calls made by the slot
  beganLate,           \* history, per slot: the running cycle was invoked while the flag was set
  completedRec,        \* history, per slot: record of the last write whose success continuation ran
  abortedWith,         \* history, per slot: the failure <<kind, cause, record>> that sent it to _abort
  droppedAtRecheck,    \* history: records dropped by the re-check after the fetch
  latchN,              \* _CountDownLatch: the counter it was constructed with
  lockOwner,           \* _CountDownLatch._lock: the thread inside "with self._lock", 0 if free
  tpc,                 \* per latch thread: position inside count_down() / await()
  cdDone,              \* history: count_down() calls that have returned
  mFinished,           \* Meter._num_finished
  mMarks,              \* Meter: marks of <<_rows_read, _rows_inserted>>
  mOut,                \* Meter: progress lines written, <<number of the call, count shown>>
  mLog                 \* history: the calls made on the Meter, "r" or "w"

vars == <<sourceKind, M, handedOut, caller, launched, seedRunning, pc, isSeed, last,
          cur, tmp, err, inflight, cancellation_event, first_error, count,
          num_finished, printed, result, failures, failLog, fetchCalls, submitted,
          successes, lateSubmits, submitsAfterFailure, fetchedLate, lateFetchSubmits,
          countDowns, beganLate, completedRec, abortedWith, droppedAtRecheck,
          latchN, lockOwner, tpc, cdDone, mFinished, mMarks, mOut, mLog>>

latchVars == <<latchN, lockOwner, tpc, cdDone>>
meterVars == <<mFinished, mMarks, mOut, mLog>>
CountDownThreads == 1..NumCountDowns
AwaitThreads == (NumCountDowns + 1)..(NumCountDowns + NumAwaits)

srcVars == <<sourceKind, M>>
histVars == <<failures, failLog, fetchCalls, submitted, successes, lateSubmits,
              submitsAfterFailure, fetchedLate, lateFetchSubmits>>

\* ------------------------------------------------------------ _CountDownLatch
\* _ChainedWriter.__init__: _CountDownLatch(self.CONCURRENCY)
LatchInit_Short == CONCURRENCY - 1
LatchInit == CONCURRENCY

\* count_down(): self._count -= 1 (under the lock)
count_down(c) == c - 1

\* await(): "while self._count > 0: wait()" - the waiter is released when
AwaitReleased_Strict(c) == c < 0
AwaitReleased(c) == c <= 0

\* ------------------------------------------------------------- helper operators
\* "if not self._enumerated_reader": only an absent reader is falsy, an
\* iterator object is truthy even when it has no records.
ReaderFalsy_Never == FALSE
ReaderFalsy == sourceKind = "absent"

\* "if self._cancellation_event.is_set()" at the entry of _execute_next
CancelledAtEntry_Never == FALSE
CancelledAtEntry == cancellation_event

\* "if self._cancellation_event.is_set()" after the fetch
CancelledAfterFetch_Never == FALSE
CancelledAfterFetch == cancellation_event

\* "if result is not self._sentinel"
CountsCompletion_Always(s) == TRUE
CountsCompletion(s) == ~isSeed[s]

\* "self._first_error = error, failed_record"
ErrorPair_Zero(error, failed_record) == <<error, 0>>
ErrorPair(error, failed_record) == <<error, failed_record>>

\* position of the slot after a successful add_callbacks: the call returns and
\* the slot waits for one of its continuations
AfterSubmit_Loop == "fetch"
AfterSubmit == "waiting"

\* value of seedRunning once the cycle run by slot s has returned: the loop of
\* insert() goes on when the call that returns is the seed call
Returned(s) == IF isSeed[s] THEN FALSE ELSE seedRunning

\* "self._abort(exc, last_completed_record)": the record blamed for a fetch failure
FetchFailureRecord_Current(s) == cur[s]
FetchFailureRecord(s) == last[s]

\* "self._abort(exc, current_record)": the record blamed for a build/submit failure
SubmitFailureRecord_Previous(s) == last[s]
SubmitFailureRecord(s) == cur[s]

\* "statement = self._statement_func(row)": the record whose row is submitted
SubmittedRecord_Previous(s) == last[s]
SubmittedRecord(s) == cur[s]

\* a fresh cause for the next failure of the given kind
NewCause(kind) == <<kind, failures + 1>>

Pairs == {<<f[2], f[3]>> : f \in failLog}

\* ------------------------------------------------------------------------ Init
\* the latch on its own: no thread is inside count_down() or await()
LatchIdle ==
  /\ lockOwner = 0
  /\ tpc = [x \in CountDownThreads \cup AwaitThreads |-> "idle"]
  /\ cdDone = 0

\* Meter.__init__: the stats start at 0, nothing is written
MeterFresh ==
  /\ mFinished = 0
  /\ mMarks = <<0, 0>>
  /\ mOut = <<>>
  /\ mLog = <<>>

\* _ChainedWriter.__init__ and the state before insert() is called
WriterFresh ==
  /\ handedOut = 0
  /\ caller = "start"
  /\ launched = 0
  /\ seedRunning = FALSE
  /\ pc = [s \in Slots |-> "unstarted"]
  /\ isSeed = [s \in Slots |-> FALSE]
  /\ last = [s \in Slots |-> 0]
  /\ cur = [s \in Slots |-> 0]
  /\ tmp = [s \in Slots |-> 0]
  /\ err = [s \in Slots |-> None]
  /\ inflight = {}
  /\ cancellation_event = FALSE
  /\ first_error = None
  /\ num_finished = 0
  /\ printed = <<>>
  /\ result = None
  /\ failures = 0
  /\ failLog = {}
  /\ fetchCalls = 0
  /\ submitted = <<>>
  /\ successes = 0
  /\ lateSubmits = [s \in Slots |-> 0]
  /\ submitsAfterFailure = 0
  /\ fetchedLate = [s \in Slots |-> FALSE]
  /\ lateFetchSubmits = 0
  /\ countDowns = [s \in Slots |-> 0]
  /\ beganLate = [s \in Slots |-> FALSE]
  /\ completedRec = [s \in Slots |-> 0]
  /\ abortedWith = [s \in Slots |-> None]
  /\ droppedAtRecheck = {}

Init ==
  /\ sourceKind \in {"absent", "iterator"}
  /\ M \in 0..MaxRecords
  /\ (sourceKind = "absent" => M = 0)
  /\ WriterFresh
  /\ latchN = LatchInit
  /\ count = latchN
  /\ LatchIdle
  /\ MeterFresh

\* --------------------------------------------------------------------- insert()
\* "if not self._enumerated_reader: return 0, None"
InsertEmpty ==
  /\ caller = "start"
  /\ ReaderFalsy
  /\ caller' = "returned"
  /\ result' = <<0, None>>
  /\ UNCHANGED <<countDowns, beganLate, completedRec, abortedWith, droppedAtRecheck>>
  /\ UNCHANGED <<latchVars, meterVars, srcVars, handedOut, launched, seedRunning, pc, isSeed, last, cur, tmp,
                 err, inflight, cancellation_event, first_error, count, num_finished,
                 printed, histVars>>

InsertStart ==
  /\ caller = "start"
  /\ ~ReaderFalsy
  /\ caller' = "launch"
  /\ UNCHANGED <<countDowns, beganLate, completedRec, abortedWith, droppedAtRecheck>>
  /\ UNCHANGED <<latchVars, meterVars, srcVars, handedOut, launched, seedRunning, pc, isSeed, last, cur, tmp,
                 err, inflight, cancellation_event, first_error, count, num_finished,
                 printed, result, histVars>>

\* "for i in xrange(self.CONCURRENCY): self._execute_next(self._sentinel, 0)"
\* the next seed call starts when the previous one has returned
Launch ==
  /\ caller = "launch"
  /\ ~seedRunning
  /\ launched < CONCURRENCY
  /\ launched' = launched + 1
  /\ seedRunning' = TRUE
  /\ pc' = [pc EXCEPT ![launched + 1] = "entry"]
  /\ isSeed' = [isSeed EXCEPT ![launched + 1] = TRUE]
  /\ last' = [last EXCEPT ![launched + 1] = 0]
  /\ beganLate' = [beganLate EXCEPT ![launched + 1] = cancellation_event]
  /\ UNCHANGED <<countDowns, completedRec, abortedWith, droppedAtRecheck>>
  /\ UNCHANGED <<latchVars, meterVars, srcVars, handedOut, caller, cur, tmp, err, inflight,
                 cancellation_event, first_error, count, num_finished, printed,
                 result, histVars>>

\* the loop is over: "self._task_counter.await()"
Await ==
  /\ caller = "launch"
  /\ ~seedRunning
  /\ launched = CONCURRENCY
  /\ caller' = "await"
  /\ UNCHANGED <<countDowns, beganLate, completedRec, abortedWith, droppedAtRecheck>>
  /\ UNCHANGED <<latchVars, meterVars, srcVars, handedOut, launched, seedRunning, pc, isSeed, last, cur, tmp,
                 err, inflight, cancellation_event, first_error, count, num_finished,
                 printed, result, histVars>>

\* await() returns; "return self.num_finished, self._first_error"
Return ==
  /\ caller = "await"
  /\ AwaitReleased(count)
  /\ caller' = "returned"
  /\ result' = <<num_finished, first_error>>
  /\ UNCHANGED <<countDowns, beganLate, completedRec, abortedWith, droppedAtRecheck>>
  /\ UNCHANGED <<latchVars, meterVars, srcVars, handedOut, launched, seedRunning, pc, isSeed, last, cur, tmp,
                 err, inflight, cancellation_event, first_error, count, num_finished,
                 printed, histVars>>

\* -------------------------------------------------------------- _execute_next
callerVars == <<caller, launched, result>>
sharedVars == <<inflight, cancellation_event, first_error, count, num_finished, printed>>

\* "if self._cancellation_event.is_set(): count_down(); return" (lines 80-82)
EntryCancelled(s) ==
  /\ pc[s] = "entry"
  /\ CancelledAtEntry
  /\ count' = count_down(count)
  /\ pc' = [pc EXCEPT ![s] = "done"]
  /\ seedRunning' = Returned(s)
  /\ last' = [last EXCEPT ![s] = 0]
  /\ countDowns' = [countDowns EXCEPT ![s] = @ + 1]
  /\ UNCHANGED <<beganLate, completedRec, abortedWith, droppedAtRecheck>>
  /\ UNCHANGED <<latchVars, meterVars, srcVars, handedOut, callerVars, isSeed, cur, tmp, err, inflight,
                 cancellation_event, first_error, num_finished, printed, histVars>>

\* the flag is not set; "if result is not self._sentinel" (line 84)
EntryProceed(s) ==
  /\ pc[s] = "entry"
  /\ ~CancelledAtEntry
  /\ pc' = [pc EXCEPT ![s] = IF CountsCompletion(s) THEN "inc_read" ELSE "fetch"]
  /\ UNCHANGED <<countDowns, beganLate, completedRec, abortedWith, droppedAtRecheck>>
  /\ UNCHANGED <<latchVars, meterVars, srcVars, handedOut, callerVars, seedRunning, isSeed, last, cur, tmp,
                 err, sharedVars, histVars>>

\* "self.num_finished += 1" (line 85): the read
IncRead(s) ==
  /\ pc[s] = "inc_read"
  /\ tmp' = [tmp EXCEPT ![s] = num_finished]
  /\ pc' = [pc EXCEPT ![s] = "inc_write"]
  /\ UNCHANGED <<countDowns, beganLate, completedRec, abortedWith, droppedAtRecheck>>
  /\ UNCHANGED <<latchVars, meterVars, srcVars, handedOut, callerVars, seedRunning, isSeed, last, cur, err,
                 sharedVars, histVars>>

\* "self.num_finished += 1" (line 85): the write
IncWrite(s) ==
  /\ pc[s] = "inc_write"
  /\ num_finished' = tmp[s] + 1
  /\ tmp' = [tmp EXCEPT ![s] = 0]
  /\ pc' = [pc EXCEPT ![s] = "progress_test"]
  /\ UNCHANGED <<countDowns, beganLate, completedRec, abortedWith, droppedAtRecheck>>
  /\ UNCHANGED <<latchVars, meterVars, srcVars, handedOut, callerVars, seedRunning, isSeed, last, cur, err,
                 inflight, cancellation_event, first_error, count, printed, histVars>>

\* "if not self.num_finished % 1000" (line 87)
ProgressTest(s) ==
  /\ pc[s] = "progress_test"
  /\ pc' = [pc EXCEPT ![s] = IF num_finished % ProgressEvery = 0
                              THEN "progress_print" ELSE "fetch"]
  /\ UNCHANGED <<countDowns, beganLate, completedRec, abortedWith, droppedAtRecheck>>
  /\ UNCHANGED <<latchVars, meterVars, srcVars, handedOut, callerVars, seedRunning, isSeed, last, cur, tmp,
                 err, sharedVars, histVars>>

\* the progress line is formatted from self.num_finished and written (lines 88-94)
ProgressPrint(s) ==
  /\ pc[s] = "progress_print"
  /\ printed' = Append(printed, num_finished)
  /\ pc' = [pc EXCEPT ![s] = "fetch"]
  /\ UNCHANGED <<countDowns, beganLate, completedRec, abortedWith, droppedAtRecheck>>
  /\ UNCHANGED <<latchVars, meterVars, srcVars, handedOut, callerVars, seedRunning, isSeed, last, cur, tmp,
                 err, inflight, cancellation_event, first_error, count, num_finished,
                 histVars>>

\* "(current_record, row) = next(self._enumerated_reader)" hands out a record
FetchRecord(s) ==
  /\ pc[s] = "fetch"
  /\ handedOut < M
  /\ handedOut' = handedOut + 1
  /\ cur' = [cur EXCEPT ![s] = handedOut + 1]
  /\ fetchCalls' = fetchCalls + 1
  /\ fetchedLate' = [fetchedLate EXCEPT ![s] = cancellation_event]
  /\ pc' = [pc EXCEPT ![s] = "recheck"]
  /\ UNCHANGED <<countDowns, beganLate, completedRec, abortedWith, droppedAtRecheck>>
  /\ UNCHANGED <<latchVars, meterVars, srcVars, callerVars, seedRunning, isSeed, last, tmp, err, sharedVars,
                 failures, failLog, submitted, successes, lateSubmits,
                 submitsAfterFailure, lateFetchSubmits>>

\* "except StopIteration: count_down(); return" (lines 99-101)
FetchExhausted(s) ==
  /\ pc[s] = "fetch"
  /\ handedOut = M
  /\ fetchCalls' = fetchCalls + 1
  /\ count' = count_down(count)
  /\ pc' = [pc EXCEPT ![s] = "done"]
  /\ seedRunning' = Returned(s)
  /\ last' = [last EXCEPT ![s] = 0]
  /\ countDowns' = [countDowns EXCEPT ![s] = @ + 1]
  /\ UNCHANGED <<beganLate, completedRec, abortedWith, droppedAtRecheck>>
  /\ UNCHANGED <<latchVars, meterVars, srcVars, handedOut, callerVars, isSeed, cur, tmp, err, inflight,
                 cancellation_event, first_error, num_finished, printed, failures,
                 failLog, submitted, successes, lateSubmits, submitsAfterFailure,
                 fetchedLate, lateFetchSubmits>>

\* "except Exception as exc: self._abort(exc, last_completed_record)" (102-104)
FetchFails(s) ==
  /\ pc[s] = "fetch"
  /\ failures < MaxFailures
  /\ fetchCalls' = fetchCalls + 1
  /\ failures' = failures + 1
  /\ failLog' = failLog \cup {<<"fetch", NewCause("fetch"), FetchFailureRecord(s)>>}
  /\ err' = [err EXCEPT ![s] = <<NewCause("fetch"), FetchFailureRecord(s)>>]
  /\ pc' = [pc EXCEPT ![s] = "abort_test"]
  /\ last' = [last EXCEPT ![s] = 0]
  /\ abortedWith' = [abortedWith EXCEPT ![s] = <<"fetch", NewCause("fetch"), FetchFailureRecord(s)>>]
  /\ UNCHANGED <<countDowns, beganLate, completedRec, droppedAtRecheck>>
  /\ UNCHANGED <<latchVars, meterVars, srcVars, handedOut, callerVars, seedRunning, isSeed, cur, tmp,
                 sharedVars, submitted, successes, lateSubmits, submitsAfterFailure,
                 fetchedLate, lateFetchSubmits>>

\* "if self._cancellation_event.is_set(): count_down(); return" (lines 106-108)
RecheckCancelled(s) ==
  /\ pc[s] = "recheck"
  /\ CancelledAfterFetch
  /\ count' = count_down(count)
  /\ pc' = [pc EXCEPT ![s] = "done"]
  /\ seedRunning' = Returned(s)
  /\ last' = [last EXCEPT ![s] = 0]
  /\ cur' = [cur EXCEPT ![s] = 0]
  /\ countDowns' = [countDowns EXCEPT ![s] = @ + 1]
  /\ droppedAtRecheck' = droppedAtRecheck \cup {cur[s]}
  /\ UNCHANGED <<beganLate, completedRec, abortedWith>>
  /\ UNCHANGED <<latchVars, meterVars, srcVars, handedOut, callerVars, isSeed, tmp, err, inflight,
                 cancellation_event, first_error, num_finished, printed, histVars>>

RecheckProceed(s) ==
  /\ pc[s] = "recheck"
  /\ ~CancelledAfterFetch
  /\ pc' = [pc EXCEPT ![s] = "submit"]
  /\ UNCHANGED <<countDowns, beganLate, completedRec, abortedWith, droppedAtRecheck>>
  /\ UNCHANGED <<latchVars, meterVars, srcVars, handedOut, callerVars, seedRunning, isSeed, last, cur, tmp,
                 err, sharedVars, histVars>>

\* statement_func, execute_async and add_callbacks succeed (lines 111-116):
\* the write is outstanding and the call returns
Submit(s) ==
  /\ pc[s] = "submit"
  /\ inflight' = inflight \cup {<<s, SubmittedRecord(s)>>}
  /\ submitted' = Append(submitted, SubmittedRecord(s))
  /\ lateSubmits' = [lateSubmits EXCEPT ![s] = @ + (IF cancellation_event THEN 1 ELSE 0)]
  /\ submitsAfterFailure' = submitsAfterFailure + (IF failLog # {} THEN 1 ELSE 0)
  /\ lateFetchSubmits' = lateFetchSubmits + (IF fetchedLate[s] THEN 1 ELSE 0)
  /\ pc' = [pc EXCEPT ![s] = AfterSubmit]
  /\ seedRunning' = Returned(s)
  /\ last' = [last EXCEPT ![s] = 0]
  /\ UNCHANGED <<countDowns, beganLate, completedRec, abortedWith, droppedAtRecheck>>
  /\ UNCHANGED <<latchVars, meterVars, srcVars, handedOut, callerVars, isSeed, cur, tmp, err,
                 cancellation_event, first_error, count, num_finished, printed,
                 failures, failLog, fetchCalls, successes, fetchedLate>>

\* "except Exception as exc: self._abort(exc, current_record)" (lines 117-119)
SubmitFails(s) ==
  /\ pc[s] = "submit"
  /\ failures < MaxFailures
  /\ failures' = failures + 1
  /\ failLog' = failLog \cup {<<"submit", NewCause("submit"), SubmitFailureRecord(s)>>}
  /\ err' = [err EXCEPT ![s] = <<NewCause("submit"), SubmitFailureRecord(s)>>]
  /\ pc' = [pc EXCEPT ![s] = "abort_test"]
  /\ last' = [last EXCEPT ![s] = 0]
  /\ cur' = [cur EXCEPT ![s] = 0]
  /\ abortedWith' = [abortedWith EXCEPT ![s] = <<"submit", NewCause("submit"), SubmitFailureRecord(s)>>]
  /\ UNCHANGED <<countDowns, beganLate, completedRec, droppedAtRecheck>>
  /\ UNCHANGED <<latchVars, meterVars, srcVars, handedOut, callerVars, seedRunning, isSeed, tmp, sharedVars,
                 fetchCalls, submitted, successes, lateSubmits, submitsAfterFailure,
                 fetchedLate, lateFetchSubmits>>

\* ------------------------------------------------------------------ the session
\* the session invokes the success continuation of an outstanding write:
\* callback=self._execute_next, callback_args=(current_record,)
Complete(s) ==
  /\ \E w \in inflight :
       /\ w[1] = s
       /\ inflight' = inflight \ {w}
       /\ last' = [last EXCEPT ![s] = w[2]]
       /\ completedRec' = [completedRec EXCEPT ![s] = w[2]]
  /\ pc' = [pc EXCEPT ![s] = "entry"]
  /\ isSeed' = [isSeed EXCEPT ![s] = FALSE]
  /\ cur' = [cur EXCEPT ![s] = 0]
  /\ successes' = successes + 1
  /\ beganLate' = [beganLate EXCEPT ![s] = cancellation_event]
  /\ UNCHANGED <<countDowns, abortedWith, droppedAtRecheck>>
  /\ UNCHANGED <<latchVars, meterVars, srcVars, handedOut, callerVars, seedRunning, tmp, err,
                 cancellation_event, first_error, count, num_finished, printed,
                 failures, failLog, fetchCalls, submitted, lateSubmits,
                 submitsAfterFailure, fetchedLate, lateFetchSubmits>>

\* the session invokes the failure continuation of an outstanding write:
\* errback=self._handle_error, errback_args=(current_record,)
Fail(s) ==
  /\ failures < MaxFailures
  /\ \E w \in inflight :
       /\ w[1] = s
       /\ inflight' = inflight \ {w}
       /\ failLog' = failLog \cup {<<"remote", NewCause("remote"), w[2]>>}
       /\ err' = [err EXCEPT ![s] = <<NewCause("remote"), w[2]>>]
       /\ abortedWith' = [abortedWith EXCEPT ![s] = <<"remote", NewCause("remote"), w[2]>>]
  /\ failures' = failures + 1
  /\ pc' = [pc EXCEPT ![s] = "abort_test"]
  /\ isSeed' = [isSeed EXCEPT ![s] = FALSE]
  /\ cur' = [cur EXCEPT ![s] = 0]
  /\ beganLate' = [beganLate EXCEPT ![s] = FALSE]
  /\ UNCHANGED <<countDowns, completedRec, droppedAtRecheck>>
  /\ UNCHANGED <<latchVars, meterVars, srcVars, handedOut, callerVars, seedRunning, last, tmp,
                 cancellation_event, first_error, count, num_finished, printed,
                 fetchCalls, submitted, successes, lateSubmits, submitsAfterFailure,
                 fetchedLate, lateFetchSubmits>>

\* ----------------------------------------------------------------------- _abort
\* "if not self._first_error:" (line 71)
AbortTest(s) ==
  /\ pc[s] = "abort_test"
  /\ pc' = [pc EXCEPT ![s] = IF first_error = None THEN "abort_set" ELSE "abort_count"]
  /\ UNCHANGED <<countDowns, beganLate, completedRec, abortedWith, droppedAtRecheck>>
  /\ UNCHANGED <<latchVars, meterVars, srcVars, handedOut, callerVars, seedRunning, isSeed, last, cur, tmp,
                 err, sharedVars, histVars>>

\* "self._first_error = error, failed_record" (line 72)
AbortSet(s) ==
  /\ pc[s] = "abort_set"
  /\ first_error' = ErrorPair(err[s][1], err[s][2])
  /\ pc' = [pc EXCEPT ![s] = "abort_count"]
  /\ UNCHANGED <<countDowns, beganLate, completedRec, abortedWith, droppedAtRecheck>>
  /\ UNCHANGED <<latchVars, meterVars, srcVars, handedOut, callerVars, seedRunning, isSeed, last, cur, tmp,
                 err, inflight, cancellation_event, count, num_finished, printed,
                 histVars>>

\* "self._task_counter.count_down()" (line 73)
AbortCount(s) ==
  /\ pc[s] = "abort_count"
  /\ count' = count_down(count)
  /\ err' = [err EXCEPT ![s] = None]
  /\ pc' = [pc EXCEPT ![s] = "abort_cancel"]
  /\ countDowns' = [countDowns EXCEPT ![s] = @ + 1]
  /\ UNCHANGED <<beganLate, completedRec, abortedWith, droppedAtRecheck>>
  /\ UNCHANGED <<latchVars, meterVars, srcVars, handedOut, callerVars, seedRunning, isSeed, last, cur, tmp,
                 inflight, cancellation_event, first_error, num_finished, printed,
                 histVars>>

\* "self._cancellation_event.set()" (line 74), then _abort and the cycle return
AbortCancel(s) ==
  /\ pc[s] = "abort_cancel"
  /\ cancellation_event' = TRUE
  /\ pc' = [pc EXCEPT ![s] = "done"]
  /\ seedRunning' = Returned(s)
  /\ UNCHANGED <<countDowns, beganLate, completedRec, abortedWith, droppedAtRecheck>>
  /\ UNCHANGED <<latchVars, meterVars, srcVars, handedOut, callerVars, isSeed, last, cur, tmp, err, inflight,
                 first_error, count, num_finished, printed, histVars>>

\* ------------------------------------------------------------------------ Next
CallerStep == InsertEmpty \/ InsertStart \/ Launch \/ Await \/ Return

SlotStep(s) ==
  \/ EntryCancelled(s) \/ EntryProceed(s)
  \/ IncRead(s) \/ IncWrite(s) \/ ProgressTest(s) \/ ProgressPrint(s)
  \/ FetchRecord(s) \/ FetchExhausted(s) \/ FetchFails(s)
  \/ RecheckCancelled(s) \/ RecheckProceed(s)
  \/ Submit(s) \/ SubmitFails(s)
  \/ AbortTest(s) \/ AbortSet(s) \/ AbortCount(s) \/ AbortCancel(s)

Deliver(s) == Complete(s) \/ Fail(s)

Next ==
  \/ CallerStep
  \/ \E s \in Slots : SlotStep(s)
  \/ \E s \in Slots : Deliver(s)

Spec == Init /\ [][Next]_vars

\* every thread that can take a step eventually takes one, and the session
\* eventually invokes a continuation of every outstanding write
FairSpec ==
  /\ Spec
  /\ WF_vars(CallerStep)
  /\ \A s \in Slots : WF_vars(SlotStep(s)) /\ WF_vars(Deliver(s))

TypeOK ==
  /\ caller \in {"start", "launch", "await", "returned"}
  /\ launched \in 0..CONCURRENCY
  /\ handedOut \in 0..M
  /\ count \in Int
  /\ num_finished \in Nat

\* ================================================= _CountDownLatch on its own
\* the lock of threading.Condition is held from "with self._lock" to the end of
\* the block; wait() gives it up while the thread sleeps and takes it again
\* after a notify.
writerVars == <<srcVars, handedOut, callerVars, seedRunning, pc, isSeed, last, cur, tmp,
                err, inflight, cancellation_event, first_error, num_finished, printed,
                histVars, countDowns, beganLate, completedRec, abortedWith,
                droppedAtRecheck>>

\* "self._lock.notifyAll()": the sleeping threads that are woken
NotifyAll_One(sleeping) == IF sleeping = {} THEN {} ELSE {CHOOSE x \in sleeping : TRUE}
NotifyAll(sleeping) == sleeping

\* count_down(): "with self._lock:"
CdAcquire(x) ==
  /\ tpc[x] = "idle"
  /\ lockOwner = 0
  /\ lockOwner' = x
  /\ tpc' = [tpc EXCEPT ![x] = "cd_dec"]
  /\ UNCHANGED <<writerVars, meterVars, count, latchN, cdDone>>

\* "self._count -= 1", "if self._count <= 0"
CdDec(x) ==
  /\ tpc[x] = "cd_dec"
  /\ count' = count_down(count)
  /\ tpc' = [tpc EXCEPT ![x] = IF count_down(count) <= 0 THEN "cd_notify" ELSE "cd_exit"]
  /\ UNCHANGED <<writerVars, meterVars, latchN, lockOwner, cdDone>>

\* "self._lock.notifyAll()"
CdNotify(x) ==
  /\ tpc[x] = "cd_notify"
  /\ tpc' = [y \in DOMAIN tpc |->
               IF y = x THEN "cd_exit"
               ELSE IF y \in NotifyAll({z \in AwaitThreads : tpc[z] = "aw_sleep"})
                    THEN "aw_woken" ELSE tpc[y]]
  /\ UNCHANGED <<writerVars, meterVars, count, latchN, lockOwner, cdDone>>

\* the end of the with block: the lock is released and count_down() returns
CdExit(x) ==
  /\ tpc[x] = "cd_exit"
  /\ lockOwner' = 0
  /\ tpc' = [tpc EXCEPT ![x] = "cd_done"]
  /\ cdDone' = cdDone + 1
  /\ UNCHANGED <<writerVars, meterVars, count, latchN>>

\* await(): "with self._lock:"
AwAcquire(x) ==
  /\ tpc[x] = "idle"
  /\ lockOwner = 0
  /\ lockOwner' = x
  /\ tpc' = [tpc EXCEPT ![x] = "aw_test"]
  /\ UNCHANGED <<writerVars, meterVars, count, latchN, cdDone>>

\* "while self._count > 0: self._lock.wait()": wait() releases the lock
AwTest(x) ==
  /\ tpc[x] = "aw_test"
  /\ IF AwaitReleased(count)
       THEN /\ tpc' = [tpc EXCEPT ![x] = "aw_exit"]
            /\ UNCHANGED lockOwner
       ELSE /\ tpc' = [tpc EXCEPT ![x] = "aw_sleep"]
            /\ lockOwner' = 0
  /\ UNCHANGED <<writerVars, meterVars, count, latchN, cdDone>>

\* wait() returns after a notify once it has the lock again
AwWake(x) ==
  /\ tpc[x] = "aw_woken"
  /\ lockOwner = 0
  /\ lockOwner' = x
  /\ tpc' = [tpc EXCEPT ![x] = "aw_test"]
  /\ UNCHANGED <<writerVars, meterVars, count, latchN, cdDone>>

\* the end of the with block: the lock is released and await() returns
AwExit(x) ==
  /\ tpc[x] = "aw_exit"
  /\ lockOwner' = 0
  /\ tpc' = [tpc EXCEPT ![x] = "aw_returned"]
  /\ UNCHANGED <<writerVars, meterVars, count, latchN, cdDone>>

LatchAlone ==
  /\ sourceKind = "absent"
  /\ M = 0
  /\ WriterFresh
  /\ MeterFresh
  /\ latchN \in 1..MaxLatch
  /\ count = latchN
  /\ LatchIdle

CdRun(x) == CdDec(x) \/ CdNotify(x) \/ CdExit(x)
AwRun(x) == AwTest(x) \/ AwWake(x) \/ AwExit(x)

LatchNext ==
  \/ \E x \in CountDownThreads : CdAcquire(x) \/ CdRun(x)
  \/ \E x \in AwaitThreads : AwAcquire(x) \/ AwRun(x)

LatchSpec == LatchAlone /\ [][LatchNext]_vars

\* a thread that is inside count_down() or await() keeps running; whether and
\* when a thread calls either of them is not constrained
LatchFairSpec ==
  /\ LatchSpec
  /\ \A x \in CountDownThreads : WF_vars(CdRun(x))
  /\ \A x \in AwaitThreads : WF_vars(AwRun(x))

\* ============================================================ Meter (meter.py)
\* the num_finished setter: "if self.num_finished % 1000 != 0: return"
MeterSkips_Inverted(value) == value % MeterEvery = 0
MeterSkips(value) == value % MeterEvery # 0

\* mark_read(): "self._rows_read.mark()"
MarkRead ==
  /\ Len(mLog) < MaxMarks
  /\ mMarks' = <<mMarks[1] + 1, mMarks[2]>>
  /\ mLog' = Append(mLog, "r")
  /\ UNCHANGED <<writerVars, latchVars, count, mFinished, mOut>>

\* mark_written(): "self.num_finished += 1" runs the setter, which stores the
\* value and writes the progress line unless it skips; then
\* "self._rows_inserted.mark()"
MarkWritten ==
  /\ Len(mLog) < MaxMarks
  /\ mFinished' = mFinished + 1
  /\ mOut' = IF MeterSkips(mFinished + 1) THEN mOut
             ELSE Append(mOut, <<Len(mLog) + 1, mFinished + 1>>)
  /\ mMarks' = <<mMarks[1], mMarks[2] + 1>>
  /\ mLog' = Append(mLog, "w")
  /\ UNCHANGED <<writerVars, latchVars, count>>

MeterAlone ==
  /\ sourceKind = "absent"
  /\ M = 0
  /\ WriterFresh
  /\ latchN = LatchInit
  /\ count = latchN
  /\ LatchIdle
  /\ MeterFresh

MeterNext == MarkRead \/ MarkWritten

MeterSpec == MeterAlone /\ [][MeterNext]_vars

\* ======================================================================= claims
Returned_ == caller = "returned"
NoFailure == failLog = {}
OnlyRemoteFailure(f) == failLog = {f} /\ f[1] = "remote"

\* C1: with M >= 1 records and no fetch, build, submit or remote failure,
\* insert() returns (M, none) under every interleaving of the continuations.
C1_ReturnsAllCompleted ==
  (Returned_ /\ M >= 1 /\ NoFailure) => result = <<M, None>>

\* C2: when exactly one write fails remotely, at record k with cause e, and
\* nothing else fails, insert() returns (c, (e, k)) with c < M.
C2_SingleRemoteFailure ==
  \A f \in failLog :
    (Returned_ /\ OnlyRemoteFailure(f)) =>
      /\ result[2] = <<f[2], f[3]>>
      /\ result[1] >= 0
      /\ result[1] < M

C2_Witness ==
  /\ Returned_
  /\ \E f \in failLog : OnlyRemoteFailure(f) /\ f[3] = 2 /\ result[2] = <<f[2], 2>>
  /\ result[1] >= 1

\* C3 as stated: when exactly one write fails, no write is submitted after the
\* moment of the failure.
C3_NoSubmitAfterFailure ==
  \A f \in failLog : OnlyRemoteFailure(f) => submitsAfterFailure = 0

\* C3 as amended: no record fetched after the cancellation flag was set is
\* ever submitted, and once the flag is set a slot submits at most one more
\* write (for a record it had fetched and re-checked before the flag was set),
\* so at most CONCURRENCY - 1 writes are submitted after the flag is set.
C3_NoSubmitOfLateFetch ==
  /\ lateFetchSubmits = 0
  /\ \A s \in Slots : lateSubmits[s] <= 1
  /\ Cardinality({s \in Slots : lateSubmits[s] > 0}) <= CONCURRENCY - 1

C3_Witness ==
  /\ \E f \in failLog : OnlyRemoteFailure(f)
  /\ cancellation_event
  /\ \E s \in Slots : lateSubmits[s] = 1 /\ ~fetchedLate[s]
  /\ lateFetchSubmits = 0

\* C4: when several slots fail, insert() returns one (cause, record) pair and
\* that pair is one that was passed to the abort path by a failure that
\* occurred: cause and record come from the same failure.
C4_ReturnedErrorOccurred ==
  (Returned_ /\ Cardinality(failLog) >= 2) => result[2] \in Pairs

C4_Witness ==
  /\ Returned_
  /\ Cardinality(failLog) = 2
  /\ {f[1] : f \in failLog} = {"remote", "submit"}
  /\ \E f \in failLog : f[1] = "remote" /\ result[2] = <<f[2], f[3]>>

\* C5: FirstError is sticky: once it holds a value no later abort changes it.
C5_FirstErrorSticky ==
  [][first_error # None => first_error' = first_error]_vars

\* C6: at most CONCURRENCY writes are outstanding, a slot has at most one
\* outstanding write, and a slot that is running a cycle has none (its next
\* write is submitted from within the completion of the previous one).
C6_BoundedOutstanding ==
  /\ Cardinality(inflight) <= CONCURRENCY
  /\ \A s \in Slots :
       /\ Cardinality({w \in inflight : w[1] = s}) <= 1
       /\ pc[s] # "waiting" => {w \in inflight : w[1] = s} = {}

C6_Witness ==
  /\ Cardinality(inflight) = CONCURRENCY
  /\ handedOut = MaxRecords
  /\ successes >= 1

\* C7 as stated: when insert() returns no write is outstanding and no slot
\* cycle is still running or pending.
C7_AllSlotsTerminated ==
  Returned_ => /\ inflight = {}
               /\ \A s \in Slots : pc[s] \in {"unstarted", "done"}

\* C7 as amended: when insert() returns every slot has decremented the latch,
\* no write is outstanding and no slot will fetch, count or submit again; the
\* only step a slot may still have to take is the last statement of the abort
\* path (setting the cancellation flag, which follows its latch decrement),
\* and in a run without failures every slot has returned.
C7_AllSlotsSettled ==
  Returned_ => /\ inflight = {}
               /\ \A s \in Slots : pc[s] \in {"unstarted", "done", "abort_cancel"}
               /\ NoFailure => \A s \in Slots : pc[s] \in {"unstarted", "done"}
               /\ ~ReaderFalsy => count = 0

C7_Witness ==
  /\ Returned_
  /\ Cardinality(failLog) = 2
  /\ successes >= 1
  /\ \E s \in Slots : pc[s] = "abort_cancel"

\* C8: when every thread keeps running and the session invokes one continuation
\* of every submitted write, insert() eventually returns, with or without
\* failures.
C8_EventuallyReturns == <>(caller = "returned")

C8_Witness ==
  /\ Returned_
  /\ count = 0
  /\ M = MaxRecords
  /\ {f[1] : f \in failLog} = {"fetch", "remote"}

\* C9 as stated: for 1 <= M <= CONCURRENCY and no failures the source is asked
\* for at most M + 1 records.
C9_AtMostMPlusOneFetches ==
  (M >= 1 /\ M <= CONCURRENCY /\ NoFailure) => fetchCalls <= M + 1

\* C9 as amended: for 1 <= M <= CONCURRENCY and no failures the source is asked
\* for at most M + CONCURRENCY records (every one of the CONCURRENCY slots ends
\* with a call that signals exhaustion), and for exactly that many by the time
\* insert() returns.
C9_FetchesBounded ==
  (M >= 1 /\ M <= CONCURRENCY /\ NoFailure) =>
    /\ fetchCalls <= M + CONCURRENCY
    /\ Returned_ => fetchCalls = M + CONCURRENCY

C9_Witness ==
  /\ Returned_ /\ NoFailure
  /\ M = CONCURRENCY
  /\ fetchCalls = M + CONCURRENCY

\* C10: insert() on an empty record source (absent, or an iterator without
\* records) returns (0, none) and execute_async is never invoked.
C10_EmptySource ==
  M = 0 =>
    /\ submitted = <<>> /\ inflight = {}
    /\ \A s \in Slots : pc[s] \notin {"submit", "waiting"}
    /\ (Returned_ /\ NoFailure) => result = <<0, None>>

C10_Witness ==
  /\ Returned_ /\ NoFailure
  /\ M = 0
  /\ sourceKind = "iterator"
  /\ fetchCalls = CONCURRENCY
  /\ result = <<0, None>>

\* ------------------------------------------------------------ helpers of C11..C20
RECURSIVE SumOver(_, _)
SumOver(f, S) == IF S = {} THEN 0
                 ELSE LET x == CHOOSE y \in S : TRUE IN f[x] + SumOver(f, S \ {x})

Range(q) == {q[i] : i \in DOMAIN q}
NoDuplicates(q) == \A i, j \in DOMAIN q : q[i] = q[j] => i = j
InAbort(s) == pc[s] \in {"abort_test", "abort_set", "abort_count", "abort_cancel", "done"}
Decremented(s) == pc[s] \in {"abort_cancel", "done"}
AbortedBy(s, kind) == abortedWith[s] # None /\ abortedWith[s][1] = kind

\* C11 as stated: with an absent source and with an iterator that has no
\* records alike, insert() starts no slot: no cycle runs, the source is not
\* asked, the latch stays at CONCURRENCY and the caller never waits on it.
C11_EmptyStartsNoSlot ==
  M = 0 => /\ \A s \in Slots : pc[s] = "unstarted"
           /\ fetchCalls = 0
           /\ count = CONCURRENCY
           /\ caller \in {"start", "returned"}

\* C11 as amended: with an absent (falsy) source insert() returns (0, none)
\* without starting a slot, asking the source, touching the latch or waiting;
\* with an iterator that has no records it starts all CONCURRENCY slots, each
\* asks the source once and ends on exhaustion, and insert() returns (0, none)
\* after the latch has reached 0.
C11_AbsentStartsNoSlot ==
  /\ sourceKind = "absent" =>
       /\ \A s \in Slots : pc[s] = "unstarted"
       /\ fetchCalls = 0
       /\ count = CONCURRENCY
       /\ caller \in {"start", "returned"}
       /\ Returned_ => result = <<0, None>>
  /\ (sourceKind = "iterator" /\ M = 0 /\ NoFailure /\ Returned_) =>
       /\ \A s \in Slots : pc[s] = "done"
       /\ fetchCalls = CONCURRENCY
       /\ count = 0
       /\ result = <<0, None>>

C11_Witness ==
  /\ Returned_
  /\ sourceKind = "absent"
  /\ result = <<0, None>>
  /\ count = CONCURRENCY

\* C14: every slot calls count_down() exactly once, whichever way it ends:
\* the calls of a run number CONCURRENCY, the counter only decreases and it
\* never goes below 0.
C14_OneCountDownPerSlot ==
  /\ [](/\ \A s \in Slots : /\ countDowns[s] <= 1
                            /\ countDowns[s] = 1 <=> Decremented(s)
        /\ count = CONCURRENCY - SumOver(countDowns, Slots)
        /\ count >= 0
        /\ (Returned_ /\ sourceKind = "iterator") =>
              SumOver(countDowns, Slots) = CONCURRENCY)
  /\ [][count' <= count]_vars

C14_Witness ==
  /\ Returned_
  /\ count = 0
  /\ \E s \in Slots : AbortedBy(s, "remote") /\ countDowns[s] = 1
  /\ \E s \in Slots : abortedWith[s] = None /\ droppedAtRecheck # {} /\ countDowns[s] = 1

\* C15: a cycle that finds the cancellation flag set at its entry changes
\* nothing but the latch counter (no count, no progress line, no fetch, no
\* submit), and a cycle that began after the flag was set never gets past its
\* entry, so it never submits a write.
C15_CancelledEntryOnlyCountsDown ==
  /\ [](\A s \in Slots : beganLate[s] => pc[s] \in {"entry", "done"})
  /\ [][\A s \in Slots :
          (pc[s] = "entry" /\ cancellation_event /\ pc'[s] # "entry") =>
             /\ pc'[s] = "done"
             /\ count' = count - 1
             /\ UNCHANGED <<num_finished, printed, fetchCalls, handedOut, inflight,
                            submitted, first_error, cancellation_event>>]_vars

C15_Witness ==
  \E s \in Slots : /\ beganLate[s]
                   /\ pc[s] = "done"
                   /\ completedRec[s] >= 1
                   /\ successes = 1
                   /\ num_finished = 0

\* C16: when a fatal failure occurred the result carries an error, when slots
\* only ended by exhaustion the error is none, and FirstError is set in every
\* state in which the latch has reached 0 after some slot aborted.
C16_ErrorReportedIffFailure ==
  /\ (Returned_ /\ ~NoFailure) => result[2] # None
  /\ (Returned_ /\ NoFailure) => result[2] = None
  /\ (count <= 0 /\ \E s \in Slots : abortedWith[s] # None) => first_error # None

C16_Witness ==
  /\ Returned_
  /\ \E f \in failLog : failLog = {f} /\ f[1] = "fetch" /\ result[2] = <<f[2], f[3]>>
  /\ successes >= 1

\* C17: a fetch failure aborts with the record whose write the slot just
\* completed, or with 0 in the seed cycle; the cycle submits nothing and the
\* slot decrements the latch once.
C17_FetchFailureBlamesPrevious ==
  \A s \in Slots :
    AbortedBy(s, "fetch") =>
      /\ abortedWith[s][3] = completedRec[s]
      /\ isSeed[s] => abortedWith[s][3] = 0
      /\ ~isSeed[s] => abortedWith[s][3] >= 1
      /\ InAbort(s)
      /\ {w \in inflight : w[1] = s} = {}
      /\ countDowns[s] = IF Decremented(s) THEN 1 ELSE 0

C17_Witness ==
  /\ \E s \in Slots : AbortedBy(s, "fetch") /\ abortedWith[s][3] >= 1 /\ pc[s] = "done"
  /\ \E s \in Slots : AbortedBy(s, "fetch") /\ abortedWith[s][3] = 0 /\ isSeed[s]

\* C18: a build/submit failure for the fetched record i aborts with i (the
\* current record, which was never submitted and is not the one the slot
\* completed before): the slot that finds FirstError unset sets it to
\* (cause, i), decrements the latch once and sets the flag, and no write of
\* record i is ever outstanding.
C18_SubmitFailureBlamesCurrent ==
  /\ [](\A s \in Slots :
          AbortedBy(s, "submit") =>
            /\ abortedWith[s][3] \in 1..handedOut
            /\ abortedWith[s][3] \notin Range(submitted)
            /\ abortedWith[s][3] # completedRec[s]
            /\ \A w \in inflight : w[1] # s /\ w[2] # abortedWith[s][3]
            /\ InAbort(s)
            /\ countDowns[s] = IF Decremented(s) THEN 1 ELSE 0
            /\ pc[s] \in {"abort_count", "abort_cancel", "done"} => first_error # None
            /\ pc[s] = "done" => cancellation_event)
  /\ [][\A s \in Slots :
          AbortedBy(s, "submit") =>
            /\ (pc[s] = "abort_test" /\ first_error = None /\ pc'[s] # "abort_test")
                 => pc'[s] = "abort_set"
            /\ (pc[s] = "abort_set" /\ pc'[s] # "abort_set")
                 => first_error' = <<abortedWith[s][2], abortedWith[s][3]>>]_vars

C18_Witness ==
  \E s \in Slots : /\ AbortedBy(s, "submit")
                   /\ pc[s] = "done"
                   /\ completedRec[s] >= 1
                   /\ first_error = <<abortedWith[s][2], abortedWith[s][3]>>
                   /\ cancellation_event

\* C19: under concurrent completions the progress line is written exactly
\* once for every multiple of the threshold the finished counter reaches, and
\* the count in the line is that multiple.
C19_ProgressOncePerCrossing ==
  /\ NoDuplicates(printed)
  /\ \A i \in DOMAIN printed : printed[i] > 0 /\ printed[i] % ProgressEvery = 0
  /\ (\A s \in Slots : pc[s] \notin {"inc_write", "progress_test", "progress_print"}) =>
        \A m \in 1..num_finished : m % ProgressEvery = 0 => m \in Range(printed)

\* C20: every record handed out is submitted at most once; a fetched record
\* stays unsubmitted only when the re-check after the fetch saw the flag or
\* when building/submitting it raised; without failures all M records are
\* submitted exactly once, and submits never outnumber fetched records.
C20_RecordConservation ==
  /\ NoDuplicates(submitted)
  /\ Range(submitted) \subseteq 1..handedOut
  /\ Len(submitted) <= handedOut
  /\ \A r \in 1..handedOut :
       \/ r \in Range(submitted)
       \/ r \in droppedAtRecheck
       \/ \E f \in failLog : f[1] = "submit" /\ f[3] = r
       \/ \E s \in Slots : pc[s] \in {"recheck", "submit"} /\ cur[s] = r
  /\ droppedAtRecheck \cap Range(submitted) = {}
  /\ droppedAtRecheck # {} => cancellation_event
  /\ (Returned_ /\ NoFailure /\ sourceKind = "iterator") =>
        /\ Range(submitted) = 1..M
        /\ Len(submitted) = M

C20_Witness ==
  /\ Returned_
  /\ droppedAtRecheck # {}
  /\ \E f \in failLog : f[1] = "submit"
  /\ Len(submitted) >= 1
  /\ handedOut = MaxRecords

\* ------------------------------------------------------------- C12 and C13
\* C12: a latch constructed with n > 0 keeps await() blocked while fewer than
\* n count_down() calls have completed, no waiter stays asleep once the
\* counter has reached 0, and once n count_down() calls have completed every
\* await() that was called returns.
C12_LatchReleasesAfterN ==
  /\ [](/\ \A x \in AwaitThreads : tpc[x] \in {"aw_exit", "aw_returned"} => cdDone >= latchN
        /\ (count <= 0 /\ lockOwner = 0) => \A x \in AwaitThreads : tpc[x] # "aw_sleep"
        /\ cdDone >= latchN => count <= 0)
  /\ \A x \in AwaitThreads :
       (cdDone >= latchN /\ tpc[x] # "idle") ~> (tpc[x] = "aw_returned")

C12_Witness ==
  /\ latchN = MaxLatch
  /\ cdDone = latchN
  /\ \E x \in AwaitThreads : tpc[x] = "aw_woken"
  /\ \E x \in AwaitThreads : tpc[x] = "aw_returned"

WritesUpTo(i) == Cardinality({j \in 1..i : mLog[j] = "w"})

\* C13: after N calls of mark_written() on a fresh Meter num_finished is N,
\* and the progress line is written once on exactly those mark_written()
\* calls whose count after the increment is a multiple of the threshold,
\* showing that count; mark_read() writes nothing.
C13_MeterCountsAndReports ==
  /\ mFinished = WritesUpTo(Len(mLog))
  /\ NoDuplicates(mOut)
  /\ {o[1] : o \in Range(mOut)} =
       {i \in DOMAIN mLog : mLog[i] = "w" /\ WritesUpTo(i) > 0
                            /\ WritesUpTo(i) % MeterEvery = 0}
  /\ \A o \in Range(mOut) : o[2] = WritesUpTo(o[1])

C13_Witness ==
  /\ Len(mLog) = MaxMarks
  /\ mFinished >= 2 * MeterEvery
  /\ mMarks[1] >= 1
  /\ Len(mOut) = 2

====
